---- MODULE Spec2Model ----
(***************************************************************************)
(* One scan of the discovery-and-scoring pipeline of server.py:            *)
(* discover_markets() calls the two venue adapters, aggregates (with the   *)
(* fallback), calls the scoring oracle, extracts the JSON list from the    *)
(* oracle's text, classifies each pick (alerting through Telegram) and     *)
(* replies.  External collaborators (the venues' HTTP endpoints, the       *)
(* oracle, the Telegram client) are nondeterministic inputs.               *)
(*                                                                         *)
(* JSON values are tagged records [t, d]; a JSON number is kept in fixed   *)
(* point, in hundredths (0.55 is 55, 45 is 4500); a string is a sequence   *)
(* of units (words); a text is a sequence of tokens.                       *)
(***************************************************************************)
EXTENDS Integers, Sequences, FiniteSets

VARIABLES pc, env, resp, poly, kalshi, scan_list, degraded,
          completion, content, picks, i, final_results, sent, reply

vars == <<pc, env, resp, poly, kalshi, scan_list, degraded,
          completion, content, picks, i, final_results, sent, reply>>

\* ------------------------------------------------------------------ bounds

\* Longest listing array a venue payload carries.
MaxListings == 2
\* Longest candidate array the oracle's text carries.
MaxPicks == 2

\* ------------------------------------------------------------- JSON values

Fix(w, c) == w * 100 + c

JNull == [t |-> "null", d |-> <<>>]
JNum(n) == [t |-> "num", d |-> [n |-> n]]
JStr(s) == [t |-> "str", d |-> [s |-> s]]
JDict(f) == [t |-> "dict", d |-> f]
JList(s) == [t |-> "list", d |-> [items |-> s]]

\* dict.get(key, default)
Get(m, key, default) == IF key \in DOMAIN m.d THEN m.d[key] ELSE default

\* A set as a sequence (a dict's keys in iteration order).
RECURSIVE SetToSeq(_)
SetToSeq(S) ==
    IF S = {} THEN <<>>
    ELSE LET x == CHOOSE y \in S : TRUE IN <<x>> \o SetToSeq(S \ {x})

\* Python's iteration protocol on a JSON value: a list yields its elements,
\* a dict its keys, a str its characters (one-character strings, none of
\* which can hold a key name); None and numbers raise TypeError.
Iterable(v) == v.t \in {"list", "dict", "str"}
IterItems(v) ==
    CASE v.t = "list" -> v.d.items
      [] v.t = "dict" -> LET ks == SetToSeq(DOMAIN v.d)
                         IN  [k \in 1..Len(ks) |-> JStr(<<ks[k]>>)]
      [] v.t = "str"  -> [k \in 1..Len(v.d.s) |-> JStr(<<"c">>)]
      [] OTHER        -> <<>>

\* str(x) inside an f-string
Format(v) == IF v.t = "str" THEN v.d.s ELSE IF v.t = "null" THEN <<"None">> ELSE <<"?">>

SeqsUpTo(S, n) == UNION {[1..k -> S] : k \in 0..n}

\* ---------------------------------------------------------- venue adapters

HttpOk == 200

\* What session.get() can give: an exception, or a response with a status
\* code and a body that r.json() parses or fails on.
Raised(e) == [exc |-> e, status_code |-> 0, body |-> [ok |-> FALSE, val |-> JNull]]
HttpResp(code, ok, val) == [exc |-> "none", status_code |-> code, body |-> [ok |-> ok, val |-> val]]
NoResp == Raised("not called")

FailureResponses ==
    {Raised("Timeout"), Raised("ConnectionError"),
     HttpResp(503, TRUE, JList(<<>>)),
     HttpResp(HttpOk, FALSE, JNull)}

Listing(source, title, price, link) ==
    [source |-> source, title |-> title, current_price |-> price, link |-> link]

\* One iteration of the loop of fetch_polymarket_list.
PolyMarket(m) ==
    IF m.t # "dict" THEN [exc |-> "AttributeError", listing |-> JNull]
    ELSE LET prices == Get(m, "prices", JDict(<<>>)) IN
         IF prices.t # "dict" THEN [exc |-> "AttributeError", listing |-> JNull]
         ELSE [exc |-> "none",
               listing |-> Listing("Polymarket",
                                   Get(m, "question", Get(m, "title", JNull)),
                                   Get(prices, "mid", JNum(Fix(0, 50))),
                                   <<"https://polymarket.com/event/", Format(Get(m, "slug", JNull))>>)]

\* The try block of fetch_polymarket_list: [exc, markets].
PolyTry(r) ==
    IF r.exc # "none" THEN [exc |-> r.exc, markets |-> <<>>]
    ELSE IF r.status_code # HttpOk THEN [exc |-> "none", markets |-> <<>>]
    ELSE IF ~r.body.ok THEN [exc |-> "JSONDecodeError", markets |-> <<>>]
    ELSE LET data == r.body.val IN
         IF ~Iterable(data) THEN [exc |-> "TypeError", markets |-> <<>>]
         ELSE LET ms == IterItems(data) IN
              IF \E k \in 1..Len(ms) : PolyMarket(ms[k]).exc # "none"
              THEN [exc |-> "AttributeError", markets |-> <<>>]
              ELSE [exc |-> "none", markets |-> [k \in 1..Len(ms) |-> PolyMarket(ms[k]).listing]]

\* Faulty variant: the adapter without its except clause.
fetch_polymarket_list_uncaught(r) == PolyTry(r)

fetch_polymarket_list(r) ==
    IF PolyTry(r).exc # "none" THEN [exc |-> "none", markets |-> <<>>] ELSE PolyTry(r)

\* One iteration of the loop of fetch_kalshi_list: skipped, raised or listed.
KalshiMarket(m) ==
    IF m.t # "dict" THEN [exc |-> "none", skip |-> TRUE, listing |-> JNull]
    ELSE LET raw == Get(m, "last_price", Get(m, "p_yes", JNum(Fix(50, 0)))) IN
         IF raw.t # "num" THEN [exc |-> "TypeError", skip |-> FALSE, listing |-> JNull]
         ELSE [exc |-> "none", skip |-> FALSE,
               listing |-> Listing("Kalshi",
                                   Get(m, "title", JStr(<<"Unknown">>)),
                                   JNum(raw.d.n \div 100),
                                   <<"https://www.kalshi.com/markets/", Format(Get(m, "ticker", JStr(<<>>)))>>)]

RECURSIVE KalshiLoop(_)
KalshiLoop(ms) ==
    IF ms = <<>> THEN <<>>
    ELSE IF KalshiMarket(Head(ms)).skip THEN KalshiLoop(Tail(ms))
    ELSE <<KalshiMarket(Head(ms)).listing>> \o KalshiLoop(Tail(ms))

\* The try block of fetch_kalshi_list: [exc, markets].
KalshiTry(r) ==
    IF r.exc # "none" THEN [exc |-> r.exc, markets |-> <<>>]
    ELSE IF r.status_code # HttpOk THEN [exc |-> "none", markets |-> <<>>]
    ELSE IF ~r.body.ok THEN [exc |-> "JSONDecodeError", markets |-> <<>>]
    ELSE LET data == r.body.val
             markets_data == IF data.t = "dict" THEN Get(data, "markets", data) ELSE data
         IN
         IF ~Iterable(markets_data) THEN [exc |-> "TypeError", markets |-> <<>>]
         ELSE LET ms == IterItems(markets_data) IN
              IF \E k \in 1..Len(ms) : KalshiMarket(ms[k]).exc # "none"
              THEN [exc |-> "TypeError", markets |-> <<>>]
              ELSE [exc |-> "none", markets |-> KalshiLoop(ms)]

fetch_kalshi_list(r) ==
    IF KalshiTry(r).exc # "none" THEN [exc |-> "none", markets |-> <<>>] ELSE KalshiTry(r)

FALLBACK_MARKETS ==
    << Listing("Polymarket", JStr(<<"Winner of 2024 US Presidential Election">>), JNum(Fix(0, 55)),
               <<"https://polymarket.com/event/", <<"winner-of-2024-us-presidential-election">>>>),
       Listing("Polymarket", JStr(<<"Will Bitcoin exceed $100,000 in 2024?">>), JNum(Fix(0, 35)),
               <<"https://polymarket.com/event/", <<"will-bitcoin-exceed-100000-in-2024">>>>),
       Listing("Kalshi", JStr(<<"Federal Reserve target rate after Nov 2024 meeting">>), JNum(Fix(0, 20)),
               <<"https://www.kalshi.com/markets/", <<"interest-rate-fed-funds-nov-2024">>>>) >>

\* --------------------------------------------------------- venue payloads

PM_Election ==
    JDict([question |-> JStr(<<"Winner of 2024 US Presidential Election">>),
           prices |-> JDict([mid |-> JNum(Fix(0, 55))]),
           slug |-> JStr(<<"winner-of-2024-us-presidential-election">>)])
PM_Bitcoin ==
    JDict([question |-> JStr(<<"Will Bitcoin exceed $100,000 in 2024?">>),
           prices |-> JDict([mid |-> JNum(Fix(0, 35))]),
           slug |-> JStr(<<"will-bitcoin-exceed-100000-in-2024">>)])
\* a mid price quoted on the 1-100 scale
PM_Scale100 ==
    JDict([question |-> JStr(<<"Will it rain?">>),
           prices |-> JDict([mid |-> JNum(Fix(45, 0))]),
           slug |-> JStr(<<"will-it-rain">>)])
\* no question, no prices, no slug
PM_NoPrice == JDict([title |-> JStr(<<"Untitled market">>)])
PM_NotARecord == JStr(<<"oops">>)

PolyElems == {PM_Election, PM_Bitcoin, PM_Scale100, PM_NoPrice, PM_NotARecord}

KM_FedRate ==
    JDict([title |-> JStr(<<"Federal Reserve target rate after Nov 2024 meeting">>),
           last_price |-> JNum(Fix(20, 0)),
           ticker |-> JStr(<<"interest-rate-fed-funds-nov-2024">>)])
KM_PYes ==
    JDict([title |-> JStr(<<"CPI above 3%">>),
           p_yes |-> JNum(Fix(45, 0)),
           ticker |-> JStr(<<"cpi-3">>)])
KM_NoPrice == JDict([ticker |-> JStr(<<"no-price">>)])
KM_NotARecord == JNum(Fix(7, 0))

KalshiElems == {KM_FedRate, KM_PYes, KM_NoPrice, KM_NotARecord}

\* A bare array, the array in an envelope, or something else altogether.
Payloads(elems, key) ==
    {JList(s) : s \in SeqsUpTo(elems, MaxListings)}
    \cup {JDict([k \in {key} |-> JList(s)]) : s \in SeqsUpTo(elems, MaxListings)}
    \cup {JNull}

PolyResponses == FailureResponses \cup {HttpResp(HttpOk, TRUE, p) : p \in Payloads(PolyElems, "data")}
KalshiResponses == FailureResponses \cup {HttpResp(HttpOk, TRUE, p) : p \in Payloads(KalshiElems, "markets")}

\* ------------------------------------------------------------------ reply

BatchCeiling == 30

NoReply == [status |-> 0, kind |-> "none", items |-> <<>>, error |-> ""]
\* jsonify(list)
JsonArray(items) == [status |-> 200, kind |-> "array", items |-> items, error |-> ""]
\* jsonify({"error": ...}), 500
ErrorEnvelope(msg) == [status |-> 500, kind |-> "error", items |-> <<>>, error |-> msg]

\* The outcome of the oracle call: an exception, or a completion with choices.
Completion(e, n) == [exc |-> e, choices |-> n]
NotCalled == Completion("not called", 0)
\* message.content: None, or a text
NoContent == [none |-> TRUE, text |-> <<>>]
Text(ts) == [none |-> FALSE, text |-> ts]

Init ==
    /\ pc = "fetch_poly"
    /\ env \in [{"OPENAI_API_KEY", "TELEGRAM_BOT_TOKEN", "TELEGRAM_CHAT_ID"} -> BOOLEAN]
    /\ resp = NoResp
    /\ poly = <<>>
    /\ kalshi = <<>>
    /\ scan_list = <<>>
    /\ degraded = FALSE
    /\ completion = NotCalled
    /\ content = NoContent
    /\ picks = JNull
    /\ i = 0
    /\ final_results = <<>>
    /\ sent = <<>>
    /\ reply = NoReply

\* The outer except of discover_markets (lines 216-218).
ServerError(e) ==
    /\ pc' = "done"
    /\ reply' = ErrorEnvelope(e)

\* poly = fetch_polymarket_list()
FetchPolymarket ==
    /\ pc = "fetch_poly"
    /\ \E r \in PolyResponses :
         LET got == fetch_polymarket_list(r) IN
         /\ resp' = r
         /\ IF got.exc # "none"
            THEN ServerError(got.exc) /\ UNCHANGED poly
            ELSE pc' = "fetch_kalshi" /\ poly' = got.markets /\ UNCHANGED reply
    /\ UNCHANGED <<env, kalshi, scan_list, degraded, completion, content, picks,
                   i, final_results, sent>>

\* kalshi = fetch_kalshi_list()
FetchKalshi ==
    /\ pc = "fetch_kalshi"
    /\ \E r \in KalshiResponses :
         LET got == fetch_kalshi_list(r) IN
         /\ resp' = r
         /\ IF got.exc # "none"
            THEN ServerError(got.exc) /\ UNCHANGED kalshi
            ELSE pc' = "aggregate" /\ kalshi' = got.markets /\ UNCHANGED reply
    /\ UNCHANGED <<env, poly, scan_list, degraded, completion, content, picks,
                   i, final_results, sent>>

Truncate(s, n) == SubSeq(s, 1, IF Len(s) < n THEN Len(s) ELSE n)

\* Faulty variant: no fallback is substituted.
Batch_nofallback(p, k) == Truncate(p \o k, BatchCeiling)

\* all_markets = poly + kalshi, the fallback, scan_list = all_markets[:30]
Batch(p, k) ==
    LET all_markets == IF p \o k = <<>> THEN FALLBACK_MARKETS ELSE p \o k
    IN  Truncate(all_markets, BatchCeiling)

\* Whether the "APIs Empty. Using Fallback Markets." line is printed.
UsesFallback(p, k) == p \o k = <<>>

Aggregate ==
    /\ pc = "aggregate"
    /\ scan_list' = Batch(poly, kalshi)
    /\ degraded' = UsesFallback(poly, kalshi)
    /\ pc' = "oracle"
    /\ UNCHANGED <<env, resp, poly, kalshi, completion, content, picks,
                   i, final_results, sent, reply>>

\* ------------------------------------------------------ response extractor

\* A text is a sequence of tokens: the fence markers, prose, the brackets,
\* the comma, and JSON atoms (a number, null, a string, an object).
Tok(kind) == [k |-> kind, j |-> JNull]
Atom(v) == [k |-> "atom", j |-> v]

\* content.replace("```json", "").replace("```", "")
StripFences(ts) ==
    LET NotJsonFence(x) == x.k # "fence_json"
        NotFence(x) == x.k # "fence"
    IN  SelectSeq(SelectSeq(ts, NotJsonFence), NotFence)

\* re.search(r'\[.*\]', content, re.DOTALL): from the first "[" to the last
\* "]" after it when there is one, the content as it is otherwise.
SpanOf(ts) ==
    LET opens == {a \in 1..Len(ts) : ts[a].k = "lbrack"} IN
    IF opens = {} THEN ts
    ELSE LET first == CHOOSE a \in opens : \A b \in opens : a <= b
             closes == {b \in first + 1..Len(ts) : ts[b].k = "rbrack"}
         IN  IF closes = {} THEN ts
             ELSE LET last == CHOOSE b \in closes : \A c \in closes : c <= b
                  IN  SubSeq(ts, first, last)

ParseFail == [ok |-> FALSE, val |-> JNull, rest |-> <<>>]

\* json.loads on tokens: value := atom | "[" [ value { "," value } ] "]"
RECURSIVE ParseValue(_), ParseItems(_, _)
ParseValue(ts) ==
    IF ts = <<>> THEN ParseFail
    ELSE IF Head(ts).k = "atom" THEN [ok |-> TRUE, val |-> Head(ts).j, rest |-> Tail(ts)]
    ELSE IF Head(ts).k = "lbrack" THEN
        IF Tail(ts) # <<>> /\ Head(Tail(ts)).k = "rbrack"
        THEN [ok |-> TRUE, val |-> JList(<<>>), rest |-> Tail(Tail(ts))]
        ELSE ParseItems(Tail(ts), <<>>)
    ELSE ParseFail
ParseItems(ts, acc) ==
    LET r == ParseValue(ts) IN
    IF ~r.ok \/ r.rest = <<>> THEN ParseFail
    ELSE IF Head(r.rest).k = "rbrack"
         THEN [ok |-> TRUE, val |-> JList(Append(acc, r.val)), rest |-> Tail(r.rest)]
    ELSE IF Head(r.rest).k = "comma" THEN ParseItems(Tail(r.rest), Append(acc, r.val))
    ELSE ParseFail

json_loads(ts) ==
    LET r == ParseValue(ts) IN
    IF r.ok /\ r.rest = <<>> THEN [ok |-> TRUE, val |-> r.val] ELSE [ok |-> FALSE, val |-> JNull]

\* The inner try of discover_markets (lines 179-185): [ok, val].
ExtractPicks(c) ==
    IF c.none THEN [ok |-> FALSE, val |-> JNull]
    ELSE json_loads(SpanOf(StripFences(c.text)))

\* ------------------------------------------------------------ oracle texts

Num(w, c) == JNum(Fix(w, c))

Pick_Hot ==
    JDict([title |-> JStr(<<"Hot">>), current_price |-> Num(0, 40), fair_value |-> Num(0, 60),
           confidence |-> Num(81, 0), rationale |-> JStr(<<"r">>),
           source |-> JStr(<<"Kalshi">>), topic |-> JStr(<<"crypto">>)])
Pick_AtThreshold ==
    JDict([title |-> JStr(<<"AtThreshold">>), current_price |-> Num(0, 40), fair_value |-> Num(0, 41),
           confidence |-> Num(80, 0), rationale |-> JStr(<<"r">>)])
Pick_NoEdge ==
    JDict([title |-> JStr(<<"NoEdge">>), current_price |-> Num(0, 40), fair_value |-> Num(0, 40),
           confidence |-> Num(90, 0), rationale |-> JStr(<<"r">>)])
Pick_NoFairValue ==
    JDict([title |-> JStr(<<"NoFairValue">>), current_price |-> Num(0, 40),
           confidence |-> Num(90, 0), rationale |-> JStr(<<"r">>)])
Pick_NoConfidence ==
    JDict([title |-> JStr(<<"NoConfidence">>), current_price |-> Num(0, 40), fair_value |-> Num(0, 60),
           rationale |-> JStr(<<"r">>)])
Pick_NoRationale ==
    JDict([title |-> JStr(<<"NoRationale">>), current_price |-> Num(0, 40), fair_value |-> Num(0, 60),
           confidence |-> Num(90, 0)])
Pick_NoPrice ==
    JDict([title |-> JStr(<<"NoPrice">>), fair_value |-> Num(0, 60),
           confidence |-> Num(90, 0), rationale |-> JStr(<<"r">>)])
Pick_NoTitle ==
    JDict([current_price |-> Num(0, 40), fair_value |-> Num(0, 60),
           confidence |-> Num(90, 0), rationale |-> JStr(<<"r">>)])
Pick_Number == Num(7, 0)
Pick_String == JStr(<<"n/a">>)

PickElems ==
    {Pick_Hot, Pick_AtThreshold, Pick_NoEdge, Pick_NoFairValue, Pick_NoConfidence,
     Pick_NoRationale, Pick_NoPrice, Pick_NoTitle, Pick_Number, Pick_String}

\* "[" e1 "," e2 ... "]"
RECURSIVE Commas(_)
Commas(es) ==
    IF es = <<>> THEN <<>>
    ELSE IF Len(es) = 1 THEN <<Atom(es[1])>>
    ELSE <<Atom(es[1]), Tok("comma")>> \o Commas(Tail(es))
ArrayText(es) == <<Tok("lbrack")>> \o Commas(es) \o <<Tok("rbrack")>>

Bodies ==
    {ArrayText(es) : es \in SeqsUpTo(PickElems, MaxPicks)}
    \cup {<<Atom(Pick_Number)>>, <<Atom(JNull)>>, <<Atom(Pick_Hot)>>, <<Atom(Pick_String)>>}
    \cup {<<Tok("lbrack"), Atom(Pick_Hot)>>, <<Tok("prose")>>}

\* The text as it is, fenced, fenced within prose, and after prose that
\* itself holds brackets.
Decorated(b) ==
    {b,
     <<Tok("fence_json")>> \o b \o <<Tok("fence")>>,
     <<Tok("prose"), Tok("fence_json")>> \o b \o <<Tok("fence"), Tok("prose")>>,
     <<Tok("prose"), Tok("lbrack"), Atom(Num(1, 0)), Tok("rbrack"), Tok("prose")>> \o b}

OracleTexts == UNION {Decorated(b) : b \in Bodies}

\* ---------------------------------------------------------- oracle, extract

\* get_openai_client() and the request of the completion call (lines
\* 162-172): json.dumps(scan_list) is the last use of the venues' data.
OracleRequest ==
    /\ pc = "oracle"
    /\ IF ~env["OPENAI_API_KEY"]
       THEN /\ pc' = "done"
            /\ reply' = ErrorEnvelope("Missing OpenAI Key")
            /\ completion' = Completion("no client", 0)
       ELSE /\ pc' = "oracle_wait"
            /\ completion' = Completion("pending", 0)
            /\ UNCHANGED reply
    /\ resp' = NoResp
    /\ poly' = <<>>
    /\ kalshi' = <<>>
    /\ scan_list' = <<>>
    /\ UNCHANGED <<env, degraded, content, picks, i, final_results, sent>>

\* What the completion call gives: an exception, no choice, or one choice
\* whose message.content is None or a text.
OracleOutcomes ==
    {[c |-> Completion("APIConnectionError", 0), content |-> NoContent],
     [c |-> Completion("none", 0), content |-> NoContent],
     [c |-> Completion("none", 1), content |-> NoContent]}
    \cup {[c |-> Completion("none", 1), content |-> Text(ts)] : ts \in OracleTexts}

\* The completion call returns or raises; content = response.choices[0].message.content
\* (lines 167-176).
OracleResponse ==
    /\ pc = "oracle_wait"
    /\ \E o \in OracleOutcomes :
         /\ completion' = o.c
         /\ IF o.c.exc # "none" THEN ServerError(o.c.exc) /\ UNCHANGED content
            ELSE IF o.c.choices = 0 THEN ServerError("IndexError") /\ UNCHANGED content
            ELSE pc' = "extract" /\ content' = o.content /\ UNCHANGED reply
    /\ UNCHANGED <<env, resp, poly, kalshi, scan_list, degraded, picks, i,
                   final_results, sent>>

\* Lines 179-190.
Extract ==
    /\ pc = "extract"
    /\ LET got == ExtractPicks(content) IN
       IF ~got.ok
       THEN /\ pc' = "done"
            /\ reply' = JsonArray(<<>>)
            /\ UNCHANGED <<picks, i>>
       ELSE /\ pc' = "classify"
            /\ picks' = got.val
            /\ i' = 1
            /\ UNCHANGED reply
    /\ UNCHANGED <<env, resp, poly, kalshi, scan_list, degraded, completion, content,
                   final_results, sent>>

\* -------------------------------------------------------- classifier/alerter

AlertThreshold == 80

\* key in pick: a dict's keys, a str's substrings, a list's elements.
HasMembership(pick) == pick.t \in {"dict", "str", "list"}
Contains(pick, key) ==
    CASE pick.t = "dict" -> key \in DOMAIN pick.d
      [] pick.t = "str"  -> \E k \in 1..Len(pick.d.s) : pick.d.s[k] = key
      [] pick.t = "list" -> \E k \in 1..Len(pick.d.items) : pick.d.items[k] = JStr(<<key>>)
      [] OTHER           -> FALSE

\* Faulty variant: the alert threshold gates inclusion too.
IsIncomplete_gated(pick) ==
    \/ ~Contains(pick, "fair_value")
    \/ ~Contains(pick, "confidence")
    \/ pick.t = "dict" /\ pick.d["confidence"].t = "num"
                       /\ pick.d["confidence"].d.n <= Fix(AlertThreshold, 0)

\* 'fair_value' not in pick or 'confidence' not in pick (line 192)
IsIncomplete(pick) == ~Contains(pick, "fair_value") \/ ~Contains(pick, "confidence")

\* Faulty variant: the threshold is not strict.
ShouldAlert_inclusive(confidence, edge) == confidence >= Fix(AlertThreshold, 0) /\ edge > 0

\* confidence > 80 and edge > 0 (line 198)
ShouldAlert(confidence, edge) == confidence > Fix(AlertThreshold, 0) /\ edge > 0

\* What the Telegram library does when called: Bot(token=...) returns or
\* raises, bot.send_message() returns or raises.
TelegramOutcomes == [bot : {"ok", "InvalidToken"}, send : {"ok", "NetworkError"}]

NoAlert == [exc |-> "none", sent |-> <<>>]

\* send_telegram_alert: [exc, sent], sent the messages handed to
\* bot.send_message (at most one).
send_telegram_alert(market_title, edge, confidence, source, e, tg) ==
    IF ~e["TELEGRAM_BOT_TOKEN"] THEN NoAlert
    ELSE IF tg.bot # "ok" THEN [exc |-> tg.bot, sent |-> <<>>]
    ELSE IF ~e["TELEGRAM_CHAT_ID"] THEN NoAlert
    ELSE IF confidence < Fix(AlertThreshold, 0) THEN NoAlert
    ELSE [exc |-> "none",
          sent |-> << [title |-> market_title, edge |-> edge, confidence |-> confidence,
                       source |-> source, delivered |-> tg.send = "ok"] >>]

Outcome(e, msgs, entries) == [exc |-> e, sent |-> msgs, append |-> entries]

\* The entry appended to final_results (lines 201-211).
ResultOf(pick, edge) ==
    [title |-> pick.d["title"],
     source |-> Get(pick, "source", JStr(<<"Unknown">>)),
     topic |-> Get(pick, "topic", JStr(<<"geo">>)),
     current_price |-> pick.d["current_price"],
     fair_value |-> pick.d["fair_value"],
     edge |-> edge,
     confidence |-> pick.d["confidence"],
     rationale |-> pick.d["rationale"],
     link |-> "https://polymarket.com"]

\* One iteration of the loop of discover_markets (lines 191-211):
\* [exc, sent, append].
ClassifyPick(pick, e, tg) ==
    IF ~HasMembership(pick) THEN Outcome("TypeError", <<>>, <<>>)
    ELSE IF IsIncomplete(pick) THEN Outcome("none", <<>>, <<>>)
    ELSE IF pick.t # "dict" THEN Outcome("TypeError", <<>>, <<>>)
    ELSE IF "current_price" \notin DOMAIN pick.d THEN Outcome("KeyError('current_price')", <<>>, <<>>)
    ELSE IF pick.d["fair_value"].t # "num" \/ pick.d["current_price"].t # "num"
              \/ pick.d["confidence"].t # "num"
         THEN Outcome("TypeError", <<>>, <<>>)
    ELSE LET edge == pick.d["fair_value"].d.n - pick.d["current_price"].d.n
             confidence == pick.d["confidence"].d.n
             alert == IF ~ShouldAlert(confidence, edge) THEN NoAlert
                      ELSE IF "title" \notin DOMAIN pick.d THEN [exc |-> "KeyError('title')", sent |-> <<>>]
                      ELSE send_telegram_alert(pick.d["title"], edge, confidence,
                                               Get(pick, "source", JStr(<<"Unknown">>)), e, tg)
         IN
         IF alert.exc # "none" THEN Outcome(alert.exc, alert.sent, <<>>)
         ELSE IF "title" \notin DOMAIN pick.d THEN Outcome("KeyError('title')", alert.sent, <<>>)
         ELSE IF "rationale" \notin DOMAIN pick.d THEN Outcome("KeyError('rationale')", alert.sent, <<>>)
         ELSE Outcome("none", alert.sent, <<ResultOf(pick, edge)>>)

\* A message with the index of the pick it is about.
Tagged(msgs, idx) == [k \in 1..Len(msgs) |-> [idx |-> idx, msg |-> msgs[k]]]

\* for pick in picks: ... (lines 191-211)
Classify ==
    /\ pc = "classify"
    /\ IF ~Iterable(picks)
       THEN ServerError("TypeError") /\ UNCHANGED <<i, final_results, sent>>
       ELSE /\ i <= Len(IterItems(picks))
            /\ \E tg \in TelegramOutcomes :
                 LET r == ClassifyPick(IterItems(picks)[i], env, tg) IN
                 /\ sent' = sent \o Tagged(r.sent, i)
                 /\ IF r.exc # "none"
                    THEN ServerError(r.exc) /\ UNCHANGED <<i, final_results>>
                    ELSE /\ i' = i + 1
                         /\ final_results' = final_results \o r.append
                         /\ UNCHANGED <<pc, reply>>
    /\ UNCHANGED <<env, resp, poly, kalshi, scan_list, degraded, completion, content, picks>>

\* return jsonify(final_results) (lines 213-214)
Finish ==
    /\ pc = "classify"
    /\ Iterable(picks)
    /\ i > Len(IterItems(picks))
    /\ pc' = "done"
    /\ reply' = JsonArray(final_results)
    /\ UNCHANGED <<env, resp, poly, kalshi, scan_list, degraded, completion, content, picks,
                   i, final_results, sent>>

Next ==
    \/ FetchPolymarket
    \/ FetchKalshi
    \/ Aggregate
    \/ OracleRequest
    \/ OracleResponse
    \/ Extract
    \/ Classify
    \/ Finish

Spec == Init /\ [][Next]_vars

\* ------------------------------------------------------------------ claims

\* A venue response that is a failure: transport failure or timeout, a
\* status other than 200, a body that is no JSON, or a payload that is
\* neither an array nor an object.
VenueFailed(r) ==
    \/ r.exc # "none"
    \/ r.status_code # HttpOk
    \/ ~r.body.ok
    \/ r.body.val.t \notin {"list", "dict"}

\* C1: a failed venue response makes its adapter return the empty list; the
\* scan reaches the oracle stage with the other venue's listings (or the
\* fallback), and no reply is ever produced before the oracle stage, so no
\* venue failure ends the scan in the error envelope.
C1_VenueFailureIsolated ==
    /\ (pc = "fetch_kalshi" /\ VenueFailed(resp) => poly = <<>>)
    /\ (pc \in {"aggregate", "oracle"} /\ VenueFailed(resp) => kalshi = <<>>)
    /\ (pc = "oracle" => /\ scan_list # <<>>
                         /\ (poly \o kalshi # <<>> => scan_list = poly \o kalshi))
    /\ (pc \in {"fetch_poly", "fetch_kalshi", "aggregate", "oracle"} => reply = NoReply)
    /\ (reply # NoReply => completion # NotCalled)

\* Kalshi failed, and the scan stands at the oracle stage with Polymarket's listings.
C1_Witness ==
    /\ pc = "oracle"
    /\ VenueFailed(resp)
    /\ poly # <<>>
    /\ scan_list = poly

\* The oracle is unavailable: no credential, the call failed, no choice, or
\* no response text.
OracleUnavailable ==
    \/ completion.exc # "none"
    \/ completion.choices = 0
    \/ content.none

\* C2: whenever the oracle is unavailable the scan ends in the error envelope
\* with status 500, and only an unavailable oracle ends a scan so.
C2_OracleUnavailableIsFatal ==
    pc = "done" =>
        /\ (OracleUnavailable => reply.kind = "error" /\ reply.status = 500)
        /\ (reply.kind = "error" => OracleUnavailable)

\* The text yields a list after fence stripping, span selection and parsing.
Recoverable(c) == ExtractPicks(c).ok /\ ExtractPicks(c).val.t = "list"

\* C3: a text from which no list of candidates can be recovered ends the
\* scan with the empty array and status 200.
C3_MalformedOutputIsEmpty ==
    pc = "done" /\ completion = Completion("none", 1) /\ ~content.none /\ ~Recoverable(content)
        => reply = JsonArray(<<>>)

\* The records of the parsed oracle list that carry both keys, in order.
HasBothKeys(v) == v.t = "dict" /\ "fair_value" \in DOMAIN v.d /\ "confidence" \in DOMAIN v.d
CompleteRecords ==
    SelectSeq(IF picks.t = "list" THEN picks.d.items ELSE <<>>, HasBothKeys)

\* C4: a scan that ends in success returns one entry for each parsed record
\* that carries both fair_value and confidence, in the oracle's order, and
\* nothing else.
C4_ResultsAreCompleteRecords ==
    pc = "done" /\ reply.kind = "array" =>
        /\ Len(reply.items) = Len(CompleteRecords)
        /\ \A k \in 1..Len(reply.items) :
             k <= Len(CompleteRecords) =>
                /\ reply.items[k].title = Get(CompleteRecords[k], "title", JNull)
                /\ reply.items[k].fair_value = CompleteRecords[k].d["fair_value"]
                /\ reply.items[k].confidence = CompleteRecords[k].d["confidence"]

\* Two records, one below the alert threshold and one without fair_value:
\* exactly the first is returned, and nothing was notified.
C4_Witness ==
    /\ pc = "done"
    /\ reply.kind = "array"
    /\ picks = JList(<<Pick_AtThreshold, Pick_NoFairValue>>)
    /\ Len(reply.items) = 1
    /\ sent = <<>>

\* C5 as claimed: the batch is the fallback set exactly when the adapters'
\* concatenated output is empty, and the degraded marker is recorded exactly then.
C5_FallbackExactlyWhenEmpty ==
    pc = "oracle" =>
        /\ (scan_list = FALLBACK_MARKETS <=> poly \o kalshi = <<>>)
        /\ (degraded <=> poly \o kalshi = <<>>)

\* C5 (amended): when the adapters' concatenated output is empty the batch
\* is the fallback set, and the degraded marker is recorded exactly when the
\* concatenated output is empty.
C5_FallbackWhenEmpty ==
    pc = "oracle" =>
        /\ (poly \o kalshi = <<>> => scan_list = FALLBACK_MARKETS)
        /\ (degraded <=> poly \o kalshi = <<>>)

\* Both adapters returned nothing and the fallback is the batch.
C5_Witness ==
    /\ pc = "oracle"
    /\ poly \o kalshi = <<>>
    /\ scan_list = FALLBACK_MARKETS
    /\ degraded

\* C6: every listing of the batch handed to the oracle has current_price
\* in [0,1].
C6_PricesNormalized ==
    pc = "oracle" =>
        \A k \in 1..Len(scan_list) :
            /\ scan_list[k].current_price.t = "num"
            /\ scan_list[k].current_price.d.n >= Fix(0, 0)
            /\ scan_list[k].current_price.d.n <= Fix(1, 0)

\* The record fires: confidence strictly above 80 and a strictly positive edge.
Fires(v) ==
    /\ HasBothKeys(v)
    /\ "current_price" \in DOMAIN v.d
    /\ v.d["confidence"].d.n > Fix(80, 0)
    /\ v.d["fair_value"].d.n - v.d["current_price"].d.n > 0
Dispatched(j) == Cardinality({k \in 1..Len(sent) : sent[k].idx = j})
Configured == env["TELEGRAM_BOT_TOKEN"] /\ env["TELEGRAM_CHAT_ID"]

\* The classification of record j ran up to its alert: the iteration
\* completed, or it ended the scan with an exception raised after the send
\* (not by the Bot constructor, nor by the read of a missing title).
Classified(j) ==
    \/ j < i
    \/ j = i /\ pc = "done" /\ reply.kind = "error"
             /\ reply.error \notin {"InvalidToken", "KeyError('title')"}

C8_NotificationNeverFailsScan ==
    pc = "done" /\ reply.kind = "error" => reply.error \notin {"InvalidToken", "NetworkError"}

\* The elements of a payload's array, bare or in the envelope under key.
ArrayOf(val, key) ==
    IF val.t = "list" THEN val.d.items
    ELSE IF val.t = "dict" /\ key \in DOMAIN val.d /\ val.d[key].t = "list" THEN val.d[key].d.items
    ELSE <<>>
IsRecord(v) == v.t = "dict"

\* C9: in either payload shape an adapter returns one listing per element
\* that is a record, skipping the others.
C9_BothShapesAccepted ==
    /\ (pc = "fetch_kalshi" /\ resp.exc = "none" /\ resp.status_code = HttpOk /\ resp.body.ok
            => Len(poly) = Len(SelectSeq(ArrayOf(resp.body.val, "data"), IsRecord)))
    /\ (pc = "aggregate" /\ resp.exc = "none" /\ resp.status_code = HttpOk /\ resp.body.ok
            => Len(kalshi) = Len(SelectSeq(ArrayOf(resp.body.val, "markets"), IsRecord)))

\* C10: a defective element of the parsed list (not a record, or a record
\* lacking a field the classifier reads) never ends the scan in the error
\* envelope.
C10_DefectiveRecordOnlyDegrades ==
    pc = "done" /\ picks.t = "list" /\ reply.kind = "error" =>
        reply.error \notin {"TypeError", "KeyError('current_price')", "KeyError('title')",
                            "KeyError('rationale')"}

====
